---- MODULE Spec2Model ----
(***************************************************************************)
(* Model of package cards (src/cards/cards.go): the self-refreshing card   *)
(* Store, its background watch loop, and its callers.                      *)
(*                                                                         *)
(* Catalogs (pointers to Cards) are identified by the number of the        *)
(* successful refresh that allocated them:                                 *)
(* 0 is the nil pointer, k >= 1 is the                                     *)
(* Catalog published by the k-th successful refresh.  Update channels      *)
(* (chan bool values held in s.notifyCh) are identified the same way: 0 is *)
(* the channel made by NewStore, k >= 1 the channel made by the k-th       *)
(* successful refresh.                                                     *)
(***************************************************************************)
EXTENDS Integers, FiniteSets, Sequences, TLC

(* ------------------------------ bounds --------------------------------- *)

\* Number of caller goroutines; each makes one call on the Store
\* (Cards, WaitForUpdate or Close).
NumClients == 2

\* Number of refresh attempts the watch loop may start.
MaxAttempts == 2

\* time.Hour, the refresh interval NewStore configures (abstract, non-zero).
Hour == 1

Clients == 1..NumClients

\* The Etag header a 200 response to attempt number n may carry: none (0, read
\* as "" by Header.Get), or a validator naming that response.  The code never
\* looks into the value, so one tag per response tells all responses apart.
Etags(n) == {0, n}

\* The ways an attempt can end without publishing (maybeUpdate's early returns).
Failures == {"transport", "notmodified", "status", "read", "decode"}

VARIABLES
    \* ---- Store fields ----
    updateFrequency, \* s.updateFrequency
    closed,          \* s.closed has been closed
    ready,           \* s.ready has been closed
    mu,              \* s.mu: [watch: watch loop holds Lock, w: clients holding Lock,
                     \*        r: clients holding RLock]
    cards,           \* s.cards (0 = nil)
    etag,            \* s.etag (0 = "")
    notifyCh,        \* s.notifyCh (channel id)
    closedChs,       \* update channels that have been closed
    panicked,        \* the process died of a runtime panic
    \* ---- the watch goroutine ----
    wpc,             \* position of the watch goroutine
    attempts,        \* number of maybeUpdate calls started
    reqEtag,         \* maybeUpdate's local etag (sent as If-None-Match)
    respEtag,        \* Etag header of the response in hand
    notify,          \* maybeUpdate's local notify
    outcome,         \* how the last finished attempt ended
    snap,            \* Store fields as they were when the attempt in progress started
    \* ---- caller goroutines ----
    pc,              \* position of each client
    op,              \* the call each client made: "cards", "wait", "close"
    seen,            \* history: see CallCards, WaitCapture, Close
    cap,             \* WaitForUpdate: the captured notifyCh; Close: see Close
    ret,             \* the Catalog read by s.Cards() (0 = none yet / nil)
    err,             \* Close's result: "nil" or "already closed"
    \* ---- history ----
    validator,       \* the Etag header of the response s.cards was decoded from
    \* ---- Catalog contents and queries (the catalog-level specifications) ----
    heap,            \* the Cards values allocated so far: id -> [M, normalized]
    building,        \* maybeUpdate's local cards (id in heap, 0 = none)
    held,            \* a reader's Catalog: [ptr, copy], copy = its contents when obtained
    qin,             \* the arguments of the last catalog-level call
    qout             \* its result

storeVars == <<updateFrequency, closed, ready, mu, cards, etag, notifyCh, closedChs, panicked>>

watchVars == <<wpc, attempts, reqEtag, respEtag, notify, outcome, snap>>

clientVars == <<pc, op, seen, cap, ret, err>>

\* The catalog-level variables; the Store-level actions leave them alone.
catVars == <<heap, building, held, qin, qout>>

vars == <<storeVars, watchVars, clientVars, validator, catVars>>

\* The fields a refresh attempt may touch, as compared by the frame claims.
StoreFields == <<cards, etag, notifyCh, ready, closedChs>>

\* A runtime panic ends the process: no goroutine takes a step after it.
Alive == ~panicked

(* ------------------------------ s.mu ----------------------------------- *)

\* sync.RWMutex: Lock succeeds when nobody holds the mutex.
CanLock == ~mu.watch /\ mu.w = {} /\ mu.r = {}

\* sync.RWMutex: RLock succeeds when no writer holds the mutex.
CanRLock == ~mu.watch /\ mu.w = {}

\* No Catalog contents are modelled (the Store-level specifications).
CatIdle ==
    /\ heap = <<>>
    /\ building = 0
    /\ held = <<>>
    /\ qin = <<>>
    /\ qout = <<>>

(* ----------------------------- NewStore -------------------------------- *)

\* NewStore: fresh channels, nil cards, empty etag; `go s.watch()` is started
\* and has not run yet.  updateFrequency is time.Hour from NewStore; 0 stands
\* for a Store whose interval was zeroed inside the package (watch line 152).
Init ==
    /\ updateFrequency \in {0, Hour}
    /\ closed = FALSE
    /\ ready = FALSE
    /\ mu = [watch |-> FALSE, w |-> {}, r |-> {}]
    /\ cards = 0
    /\ etag = 0
    /\ notifyCh = 0
    /\ closedChs = {}
    /\ panicked = FALSE
    /\ wpc = "start"
    /\ attempts = 0
    /\ reqEtag = 0
    /\ respEtag = 0
    /\ notify = 0
    /\ outcome = "none"
    /\ snap = <<0, 0, 0, FALSE, {}>>
    /\ pc = [p \in Clients |-> "idle"]
    /\ op = [p \in Clients |-> "none"]
    /\ seen = [p \in Clients |-> 0]
    /\ cap = [p \in Clients |-> 0]
    /\ ret = [p \in Clients |-> 0]
    /\ err = [p \in Clients |-> "none"]
    /\ validator = 0
    /\ CatIdle

(* ------------------------- watch / maybeUpdate ------------------------- *)

\* Mutant of WatchStart: the ready signal is fired when the loop starts
\* instead of after the first publication.
WatchStartFiresReady ==
    /\ Alive
    /\ wpc = "start"
    /\ attempts < MaxAttempts
    /\ wpc' = "mu_lock"
    /\ attempts' = attempts + 1
    /\ snap' = StoreFields
    /\ ready' = TRUE
    /\ UNCHANGED <<updateFrequency, closed, mu, cards, etag, notifyCh, closedChs, panicked>>
    /\ UNCHANGED <<reqEtag, respEtag, notify, outcome, clientVars>>
    /\ UNCHANGED <<validator, catVars>>

\* watch line 150: the goroutine's first statement is an unconditional
\* s.maybeUpdate() (no look at s.closed).
WatchStart ==
    /\ Alive
    /\ wpc = "start"
    /\ attempts < MaxAttempts
    /\ wpc' = "mu_lock"
    /\ attempts' = attempts + 1
    /\ snap' = StoreFields
    /\ UNCHANGED <<storeVars, reqEtag, respEtag, notify, outcome, clientVars>>
    /\ UNCHANGED <<validator, catVars>>

\* maybeUpdate line 175: s.mu.Lock().
MaybeUpdateLock ==
    /\ Alive
    /\ wpc = "mu_lock"
    /\ CanLock
    /\ mu' = [mu EXCEPT !.watch = TRUE]
    /\ wpc' = "mu_etag"
    /\ UNCHANGED <<updateFrequency, closed, ready, cards, etag, notifyCh, closedChs, panicked>>
    /\ UNCHANGED <<attempts, reqEtag, respEtag, notify, outcome, snap, clientVars>>
    /\ UNCHANGED <<validator, catVars>>

\* Mutant of MaybeUpdateSnapshot: the lock taken at line 175 is kept over the
\* fetch (an Unlock that is deferred instead of called).
MaybeUpdateSnapshotKeepsLock ==
    /\ Alive
    /\ wpc = "mu_etag"
    /\ reqEtag' = etag
    /\ wpc' = "fetch"
    /\ UNCHANGED <<updateFrequency, closed, ready, mu, cards, etag, notifyCh, closedChs, panicked>>
    /\ UNCHANGED <<attempts, respEtag, notify, outcome, snap, clientVars>>
    /\ UNCHANGED <<validator, catVars>>

\* maybeUpdate lines 176-177: etag := s.etag; s.mu.Unlock().
MaybeUpdateSnapshot ==
    /\ Alive
    /\ wpc = "mu_etag"
    /\ reqEtag' = etag
    /\ mu' = [mu EXCEPT !.watch = FALSE]
    /\ wpc' = "fetch"
    /\ UNCHANGED <<updateFrequency, closed, ready, cards, etag, notifyCh, closedChs, panicked>>
    /\ UNCHANGED <<attempts, respEtag, notify, outcome, snap, clientVars>>
    /\ UNCHANGED <<validator, catVars>>

\* Mutant of MaybeUpdateFail: a failed attempt ends the watch loop.
MaybeUpdateFailStopsLoop(f) ==
    /\ Alive
    /\ wpc = "fetch"
    /\ outcome' = f
    /\ reqEtag' = 0
    /\ wpc' = "exit"
    /\ UNCHANGED <<storeVars, attempts, respEtag, notify, snap, clientVars>>
    /\ UNCHANGED <<validator, catVars>>

\* Mutant of MaybeUpdateFail: a failed attempt forgets the stored validator.
MaybeUpdateFailDropsEtag(f) ==
    /\ Alive
    /\ wpc = "fetch"
    /\ outcome' = f
    /\ reqEtag' = 0
    /\ etag' = 0
    /\ wpc' = "select"
    /\ UNCHANGED <<updateFrequency, closed, ready, mu, cards, notifyCh, closedChs, panicked>>
    /\ UNCHANGED <<attempts, respEtag, notify, snap, clientVars>>
    /\ UNCHANGED <<validator, catVars>>

\* maybeUpdate lines 179-214, the early returns: transport error (189-192),
\* 304 (194-196), non-200 status (198-201), body read error (202-205),
\* decode error (211-214).  Each logs and returns; no Store field is written.
MaybeUpdateFail(f) ==
    /\ Alive
    /\ wpc = "fetch"
    /\ outcome' = f
    /\ reqEtag' = 0
    /\ wpc' = "select"
    /\ UNCHANGED <<storeVars, attempts, respEtag, notify, snap, clientVars>>
    /\ UNCHANGED <<validator, catVars>>

\* maybeUpdate lines 188-215, the success path up to the second Lock: a 200
\* response with Etag header e whose body decodes; the new Cards value and its
\* normalized index are built in locals.
MaybeUpdateFetched(e) ==
    /\ Alive
    /\ wpc = "fetch"
    /\ respEtag' = e
    /\ wpc' = "pub_lock"
    /\ UNCHANGED <<storeVars, attempts, reqEtag, notify, outcome, snap, clientVars>>
    /\ UNCHANGED <<validator, catVars>>

\* The success path for whichever Etag header the response carries.
MaybeUpdateSuccess == \E e \in Etags(attempts) : MaybeUpdateFetched(e)

\* maybeUpdate line 216: s.mu.Lock().
MaybeUpdateLock2 ==
    /\ Alive
    /\ wpc = "pub_lock"
    /\ CanLock
    /\ mu' = [mu EXCEPT !.watch = TRUE]
    /\ wpc' = "pub"
    /\ UNCHANGED <<updateFrequency, closed, ready, cards, etag, notifyCh, closedChs, panicked>>
    /\ UNCHANGED <<attempts, reqEtag, respEtag, notify, outcome, snap, clientVars>>
    /\ UNCHANGED <<validator, catVars>>

\* maybeUpdate lines 219-220: s.notifyCh = make(chan bool); notify := s.notifyCh.
\* The local is read from the field after the field was reassigned, so it is
\* the channel just made, not the one the field held before.
NotifyLocal(old, new) == new

\* Mutant of MaybeUpdatePublish: the validator stored with the new Catalog is
\* the one that was sent, not the one that came back.
MaybeUpdatePublishStaleEtag ==
    /\ Alive
    /\ wpc = "pub"
    /\ etag' = reqEtag
    /\ cards' = cards + 1
    /\ notifyCh' = notifyCh + 1
    /\ notify' = NotifyLocal(notifyCh, notifyCh + 1)
    /\ mu' = [mu EXCEPT !.watch = FALSE]
    /\ wpc' = "notify"
    /\ UNCHANGED <<updateFrequency, closed, ready, closedChs, panicked>>
    /\ UNCHANGED <<attempts, reqEtag, respEtag, outcome, snap, clientVars>>
    /\ validator' = respEtag
    /\ UNCHANGED catVars

\* Mutant of MaybeUpdatePublish: the signal is rotated and the validator
\* stored, but the new Catalog is not stored in s.cards.
MaybeUpdatePublishNoCards ==
    /\ Alive
    /\ wpc = "pub"
    /\ etag' = respEtag
    /\ notifyCh' = notifyCh + 1
    /\ notify' = NotifyLocal(notifyCh, notifyCh + 1)
    /\ mu' = [mu EXCEPT !.watch = FALSE]
    /\ wpc' = "notify"
    /\ UNCHANGED <<updateFrequency, closed, ready, cards, closedChs, panicked>>
    /\ UNCHANGED <<attempts, reqEtag, respEtag, outcome, snap, clientVars>>
    /\ validator' = respEtag
    /\ UNCHANGED catVars

\* maybeUpdate lines 217-221: publish under the lock, then Unlock.
MaybeUpdatePublish ==
    /\ Alive
    /\ wpc = "pub"
    /\ etag' = respEtag
    /\ cards' = cards + 1
    /\ notifyCh' = notifyCh + 1
    /\ notify' = NotifyLocal(notifyCh, notifyCh + 1)
    /\ mu' = [mu EXCEPT !.watch = FALSE]
    /\ wpc' = "notify"
    /\ UNCHANGED <<updateFrequency, closed, ready, closedChs, panicked>>
    /\ UNCHANGED <<attempts, reqEtag, respEtag, outcome, snap, clientVars>>
    /\ validator' = respEtag
    /\ UNCHANGED catVars

\* maybeUpdate line 224: close(notify).  Closing a closed channel panics.
MaybeUpdateNotify ==
    /\ Alive
    /\ wpc = "notify"
    /\ IF notify \in closedChs
         THEN /\ panicked' = TRUE
              /\ wpc' = "panic"
              /\ UNCHANGED closedChs
         ELSE /\ closedChs' = closedChs \cup {notify}
              /\ wpc' = "ready_sel"
              /\ UNCHANGED panicked
    /\ UNCHANGED <<updateFrequency, closed, ready, mu, cards, etag, notifyCh>>
    /\ UNCHANGED <<attempts, reqEtag, respEtag, notify, outcome, snap, clientVars>>
    /\ UNCHANGED <<validator, catVars>>

\* maybeUpdate lines 226-232: select { case <-s.ready: default: close(s.ready) },
\* log, return to watch.
MaybeUpdateReady ==
    /\ Alive
    /\ wpc = "ready_sel"
    /\ ready' = TRUE
    /\ outcome' = "ok"
    /\ reqEtag' = 0
    /\ respEtag' = 0
    /\ notify' = 0
    /\ wpc' = "select"
    /\ UNCHANGED <<updateFrequency, closed, mu, cards, etag, notifyCh, closedChs, panicked>>
    /\ UNCHANGED <<attempts, snap, clientVars>>
    /\ UNCHANGED <<validator, catVars>>

\* watch lines 152-154: a zero interval ends the loop after the first attempt.
WatchZero ==
    /\ Alive
    /\ wpc = "select"
    /\ updateFrequency = 0
    /\ wpc' = "exit"
    /\ UNCHANGED <<storeVars, attempts, reqEtag, respEtag, notify, outcome, snap, clientVars>>
    /\ UNCHANGED <<validator, catVars>>

\* watch lines 155-156, 160: the timer case of the select is taken (the interval
\* has elapsed), then s.maybeUpdate().  When s.closed is closed too, both cases
\* are ready and select takes either.
WatchTimer ==
    /\ Alive
    /\ wpc = "select"
    /\ updateFrequency /= 0
    /\ attempts < MaxAttempts
    /\ wpc' = "mu_lock"
    /\ attempts' = attempts + 1
    /\ snap' = StoreFields
    /\ outcome' = "none"
    /\ UNCHANGED <<storeVars, reqEtag, respEtag, notify, clientVars>>
    /\ UNCHANGED <<validator, catVars>>

\* watch lines 157-158: the <-s.closed case of the select is taken.
WatchClosed ==
    /\ Alive
    /\ wpc = "select"
    /\ updateFrequency /= 0
    /\ closed
    /\ wpc' = "exit"
    /\ UNCHANGED <<storeVars, attempts, reqEtag, respEtag, notify, outcome, snap, clientVars>>
    /\ UNCHANGED <<validator, catVars>>

(* ------------------------------- Cards --------------------------------- *)

\* A client calls s.Cards() (line 242).  seen records s.cards at the moment
\* of the call (history only).
CallCards(p) ==
    /\ Alive
    /\ pc[p] = "idle"
    /\ pc' = [pc EXCEPT ![p] = "c_ready"]
    /\ op' = [op EXCEPT ![p] = "cards"]
    /\ seen' = [seen EXCEPT ![p] = cards]
    /\ UNCHANGED <<storeVars, watchVars, cap, ret, err>>
    /\ UNCHANGED <<validator, catVars>>

\* Mutant of CardsReady: Cards does not wait for the ready signal.
CardsReadyNoGate(p) ==
    /\ Alive
    /\ pc[p] = "c_ready"
    /\ pc' = [pc EXCEPT ![p] = "c_rlock"]
    /\ UNCHANGED <<storeVars, watchVars, op, seen, cap, ret, err>>
    /\ UNCHANGED <<validator, catVars>>

\* Cards line 243: <-s.ready returns once s.ready is closed.  Also the
\* s.Cards() call made by WaitForUpdate's goroutine (line 143).
CardsReady(p) ==
    /\ Alive
    /\ pc[p] = "c_ready"
    /\ ready
    /\ pc' = [pc EXCEPT ![p] = "c_rlock"]
    /\ UNCHANGED <<storeVars, watchVars, op, seen, cap, ret, err>>
    /\ UNCHANGED <<validator, catVars>>

\* Cards line 245: s.mu.RLock().
CardsRLock(p) ==
    /\ Alive
    /\ pc[p] = "c_rlock"
    /\ CanRLock
    /\ mu' = [mu EXCEPT !.r = @ \cup {p}]
    /\ pc' = [pc EXCEPT ![p] = "c_read"]
    /\ UNCHANGED <<updateFrequency, closed, ready, cards, etag, notifyCh, closedChs, panicked>>
    /\ UNCHANGED <<watchVars, op, seen, cap, ret, err>>
    /\ UNCHANGED <<validator, catVars>>

\* Cards lines 246-248: return s.cards, with the deferred RUnlock.  A direct
\* caller is done; WaitForUpdate's goroutine goes on to send the value.
CardsReturn(p) ==
    /\ Alive
    /\ pc[p] = "c_read"
    /\ ret' = [ret EXCEPT ![p] = cards]
    /\ mu' = [mu EXCEPT !.r = @ \ {p}]
    /\ pc' = [pc EXCEPT ![p] = IF op[p] = "wait" THEN "g_send" ELSE "done"]
    /\ UNCHANGED <<updateFrequency, closed, ready, cards, etag, notifyCh, closedChs, panicked>>
    /\ UNCHANGED <<watchVars, op, seen, cap, err>>
    /\ UNCHANGED <<validator, catVars>>

(* --------------------------- WaitForUpdate ----------------------------- *)

\* A client calls s.WaitForUpdate(); line 137: s.mu.Lock().
WaitForUpdate(p) ==
    /\ Alive
    /\ pc[p] = "idle"
    /\ CanLock
    /\ mu' = [mu EXCEPT !.w = {p}]
    /\ pc' = [pc EXCEPT ![p] = "w_read"]
    /\ op' = [op EXCEPT ![p] = "wait"]
    /\ UNCHANGED <<updateFrequency, closed, ready, cards, etag, notifyCh, closedChs, panicked>>
    /\ UNCHANGED <<watchVars, seen, cap, ret, err>>
    /\ UNCHANGED <<validator, catVars>>

\* WaitForUpdate lines 138-146: notifyCh := s.notifyCh; Unlock; make the result
\* channel; start the goroutine; return the channel.  seen records s.cards at
\* the capture (history only).
WaitCapture(p) ==
    /\ Alive
    /\ pc[p] = "w_read"
    /\ cap' = [cap EXCEPT ![p] = notifyCh]
    /\ seen' = [seen EXCEPT ![p] = cards]
    /\ mu' = [mu EXCEPT !.w = {}]
    /\ pc' = [pc EXCEPT ![p] = "g_wait"]
    /\ UNCHANGED <<updateFrequency, closed, ready, cards, etag, notifyCh, closedChs, panicked>>
    /\ UNCHANGED <<watchVars, op, ret, err>>
    /\ UNCHANGED <<validator, catVars>>

\* WaitForUpdate line 142: <-notifyCh returns once the captured channel is
\* closed (nothing is ever sent on it); line 143 then calls s.Cards().
WaitNotified(p) ==
    /\ Alive
    /\ pc[p] = "g_wait"
    /\ cap[p] \in closedChs
    /\ pc' = [pc EXCEPT ![p] = "c_ready"]
    /\ UNCHANGED <<storeVars, watchVars, op, seen, cap, ret, err>>
    /\ UNCHANGED <<validator, catVars>>

\* WaitForUpdate lines 143-144: ch <- (value read by s.Cards()), received by
\* the caller, who is receiving on the handle; close(ch).
WaitDeliver(p) ==
    /\ Alive
    /\ pc[p] = "g_send"
    /\ pc' = [pc EXCEPT ![p] = "done"]
    /\ UNCHANGED <<storeVars, watchVars, op, seen, cap, ret, err>>
    /\ UNCHANGED <<validator, catVars>>

(* ------------------------------- Close --------------------------------- *)

\* Close calls that have returned.
Returned == {q \in Clients : op[q] = "close" /\ pc[q] = "done"}

\* Close calls that are between their select and their close(s.closed).
InFlight == {q \in Clients : pc[q] = "k_close"}

\* Mutant of Close: a Close of a closed Store quietly succeeds.
CloseIdempotent(p) ==
    /\ Alive
    /\ pc[p] = "idle"
    /\ op' = [op EXCEPT ![p] = "close"]
    /\ seen' = [seen EXCEPT ![p] = Cardinality(Returned)]
    /\ cap' = [cap EXCEPT ![p] = Cardinality(InFlight)]
    /\ IF closed
         THEN /\ err' = [err EXCEPT ![p] = "nil"]
              /\ pc' = [pc EXCEPT ![p] = "done"]
         ELSE /\ pc' = [pc EXCEPT ![p] = "k_close"]
              /\ UNCHANGED err
    /\ UNCHANGED <<storeVars, watchVars, ret>>
    /\ UNCHANGED <<validator, catVars>>

\* Close lines 116-119: the select.  A closed s.closed makes the call return
\* "already closed"; otherwise the default case is taken and the call goes on
\* to line 120.  History only: seen = number of Close calls that had returned
\* when this one started, cap = number of Close calls in flight at that moment.
Close(p) ==
    /\ Alive
    /\ pc[p] = "idle"
    /\ op' = [op EXCEPT ![p] = "close"]
    /\ seen' = [seen EXCEPT ![p] = Cardinality(Returned)]
    /\ cap' = [cap EXCEPT ![p] = Cardinality(InFlight)]
    /\ IF closed
         THEN /\ err' = [err EXCEPT ![p] = "already closed"]
              /\ pc' = [pc EXCEPT ![p] = "done"]
         ELSE /\ pc' = [pc EXCEPT ![p] = "k_close"]
              /\ UNCHANGED err
    /\ UNCHANGED <<storeVars, watchVars, ret>>
    /\ UNCHANGED <<validator, catVars>>

\* Close lines 120-122: close(s.closed); return nil.  Closing a closed channel
\* is a runtime panic, which ends the process.
CloseFire(p) ==
    /\ Alive
    /\ pc[p] = "k_close"
    /\ IF closed
         THEN /\ panicked' = TRUE
              /\ pc' = [pc EXCEPT ![p] = "panic"]
              /\ UNCHANGED <<closed, err>>
         ELSE /\ closed' = TRUE
              /\ err' = [err EXCEPT ![p] = "nil"]
              /\ pc' = [pc EXCEPT ![p] = "done"]
              /\ UNCHANGED panicked
    /\ UNCHANGED <<updateFrequency, ready, mu, cards, etag, notifyCh, closedChs>>
    /\ UNCHANGED <<watchVars, op, seen, cap, ret>>
    /\ UNCHANGED <<validator, catVars>>

(* --------------------------- specification ----------------------------- *)

Next ==
    \/ WatchStart
    \/ MaybeUpdateLock
    \/ MaybeUpdateSnapshot
    \/ \E f \in Failures : MaybeUpdateFail(f)
    \/ MaybeUpdateSuccess
    \/ MaybeUpdateLock2
    \/ MaybeUpdatePublish
    \/ MaybeUpdateNotify
    \/ MaybeUpdateReady
    \/ WatchZero
    \/ WatchTimer
    \/ WatchClosed
    \/ \E p \in Clients : CallCards(p)
    \/ \E p \in Clients : CardsReady(p)
    \/ \E p \in Clients : CardsRLock(p)
    \/ \E p \in Clients : CardsReturn(p)
    \/ \E p \in Clients : WaitForUpdate(p)
    \/ \E p \in Clients : WaitCapture(p)
    \/ \E p \in Clients : WaitNotified(p)
    \/ \E p \in Clients : WaitDeliver(p)
    \/ \E p \in Clients : Close(p)
    \/ \E p \in Clients : CloseFire(p)

Spec == Init /\ [][Next]_vars

\* The steps of the watch goroutine that need nothing but the scheduler, the
\* mutex or the interval timer (not the remote server's answer).
WatchStep ==
    \/ WatchStart
    \/ MaybeUpdateLock
    \/ MaybeUpdateSnapshot
    \/ MaybeUpdateLock2
    \/ MaybeUpdatePublish
    \/ MaybeUpdateNotify
    \/ MaybeUpdateReady
    \/ WatchZero
    \/ WatchTimer

\* The steps of a caller's goroutines after the call was made.
ClientStep(p) ==
    \/ CardsReady(p)
    \/ CardsRLock(p)
    \/ CardsReturn(p)
    \/ WaitCapture(p)
    \/ WaitNotified(p)
    \/ WaitDeliver(p)
    \/ CloseFire(p)

\* The Go scheduler runs every runnable goroutine, and a time.After timer
\* fires.  Nothing is assumed of the remote server (a fetch may never return)
\* nor of the callers (no call need ever be made).
Fairness ==
    /\ WF_vars(WatchStep)
    /\ \A p \in Clients : WF_vars(ClientStep(p))

FairSpec == Init /\ [][Next]_vars /\ Fairness

(* ------------------------------ strings -------------------------------- *)

\* A Go string is a sequence of characters; a character is a one-letter
\* string, except "LIG" (U+00C6, the AE ligature), "lig" (U+00E6, its lower
\* case) and "RSQ" (U+2019, the right single quote).

\* strings.ToLower on one character (Unicode aware: the ligature has a lower
\* case of its own).
LowerChar(c) ==
    CASE c = "A" -> "a"
      [] c = "B" -> "b"
      [] c = "C" -> "c"
      [] c = "O" -> "o"
      [] c = "T" -> "t"
      [] c = "W" -> "w"
      [] c = "LIG" -> "lig"
      [] OTHER -> c

\* strings.ToLower.
ToLower(str) == [i \in 1..Len(str) |-> LowerChar(str[i])]

\* strings.Replace(str, old, new, -1) for a one-character old.
RECURSIVE Replace(_, _, _)
Replace(str, old, new) ==
    IF str = <<>> THEN <<>>
    ELSE (IF Head(str) = old THEN new ELSE <<Head(str)>>) \o Replace(Tail(str), old, new)

\* strings.Join.
RECURSIVE Join(_, _)
Join(strs, sep) ==
    IF strs = <<>> THEN <<>>
    ELSE IF Len(strs) = 1 THEN strs[1]
    ELSE strs[1] \o sep \o Join(Tail(strs), sep)

\* strings.HasPrefix.
HasPrefix(str, prefix) ==
    /\ Len(str) >= Len(prefix)
    /\ SubSeq(str, 1, Len(prefix)) = prefix

\* strings.Contains.
Contains(str, substr) ==
    \E i \in 0..(Len(str) - Len(substr)) : SubSeq(str, i + 1, i + Len(substr)) = substr

\* The elements of a sequence, and the orders a Go map of n entries may be
\* ranged over.
Range(f) == {f[i] : i \in DOMAIN f}

Orders(n) == {f \in [1..n -> 1..n] : Range(f) = 1..n}

\* All sequences over S of length at most n.
SeqsUpTo(S, n) == UNION {[1..k -> S] : k \in 0..n}

(* --------------------------- Cards (Catalog) ---------------------------- *)

\* What the Store variables are right after NewStore; the specifications of
\* the Catalog's own functions leave them there.
StoreIdle ==
    /\ updateFrequency = Hour
    /\ closed = FALSE
    /\ ready = FALSE
    /\ mu = [watch |-> FALSE, w |-> {}, r |-> {}]
    /\ cards = 0
    /\ etag = 0
    /\ notifyCh = 0
    /\ closedChs = {}
    /\ panicked = FALSE
    /\ wpc = "start"
    /\ attempts = 0
    /\ reqEtag = 0
    /\ respEtag = 0
    /\ notify = 0
    /\ outcome = "none"
    /\ snap = <<0, 0, 0, FALSE, {}>>
    /\ pc = [p \in Clients |-> "idle"]
    /\ op = [p \in Clients |-> "none"]
    /\ seen = [p \in Clients |-> 0]
    /\ cap = [p \in Clients |-> 0]
    /\ ret = [p \in Clients |-> 0]
    /\ err = [p \in Clients |-> "none"]
    /\ validator = 0

\* A Card is a record of the fields the package reads: Name, Names, Colors,
\* Type, Text.  The primary map M is a sequence of Cards: position i stands
\* for the i-th entry of the Go map and for the *Card it points to (two
\* entries may hold equal field values and are still two cards).  A nil *Card
\* is 0.
NewCard(name, names, colors, type, text) ==
    [Name |-> name, Names |-> names, Colors |-> colors, Type |-> type, Text |-> text]

\* normalizeCardName.
normalizeCardName(n) ==
    Replace(Replace(n, "LIG", <<"A", "e">>), "RSQ", <<"'">>)

\* Mutant of PrimaryKey: the primary name is case-folded only.
PrimaryKeyRaw(card) == ToLower(card.Name)

\* generateNormalized line 86: the key of a card's primary name.
PrimaryKey(card) == ToLower(normalizeCardName(card.Name))

\* generateNormalized lines 81-85: the keys of a multi-face card's joined
\* component names, in the order they are written.
JoinedKeys(card) ==
    IF Len(card.Names) /= 0
    THEN << ToLower(Join(card.Names, <<" ", "&", " ">>)),
            ToLower(Join(card.Names, <<" ", "/", " ">>)),
            ToLower(Join(card.Names, <<" ", "/", "/", " ">>)) >>
    ELSE <<>>

\* c.normalized[key] = card.
Put(m, key, i) == [k \in DOMAIN m \cup {key} |-> IF k = key THEN i ELSE m[k]]

RECURSIVE PutAll(_, _, _)
PutAll(m, keys, i) ==
    IF keys = <<>> THEN m ELSE PutAll(Put(m, Head(keys), i), Tail(keys), i)

\* generateNormalized: the loop over c.M in the order `order`, starting from
\* the index `m`.
RECURSIVE generateNormalizedFrom(_, _, _)
generateNormalizedFrom(m, M, order) ==
    IF order = <<>> THEN m
    ELSE LET i == Head(order)
         IN  generateNormalizedFrom(
                 Put(PutAll(m, JoinedKeys(M[i]), i), PrimaryKey(M[i]), i),
                 M, Tail(order))

\* generateNormalized on a Catalog whose index is the empty map made at
\* maybeUpdate line 209.
generateNormalized(M, order) == generateNormalizedFrom(<<>>, M, order)

\* LookupNormalized: the card (position in M) or nil (0).
LookupNormalized(c, cardName) ==
    LET key == ToLower(normalizeCardName(cardName))
    IN  IF key \in DOMAIN c.normalized THEN c.normalized[key] ELSE 0

(* ---------------- specification of generateNormalized ------------------ *)

\* Bound: cards in a Catalog.
MaxCards == 2

\* "Ae", the ligature, "B", and a name that reads like joined components.
NormNames ==
    { <<"A", "e">>, <<"LIG">>, <<"B">>, <<"LIG", " ", "&", " ", "B">> }

\* Component name lists: none (single-face card) or two faces.
NormFaces ==
    { <<>>, << <<"A", "e">>, <<"B">> >>, << <<"LIG">>, <<"B">> >> }

NormCards == {NewCard(n, f, <<>>, <<>>, <<>>) : n \in NormNames, f \in NormFaces}

\* A Catalog was decoded (maybeUpdate 207-214): qin holds it, its index empty.
NormInit ==
    /\ StoreIdle
    /\ heap = <<>>
    /\ building = 0
    /\ held = <<>>
    /\ \E M \in SeqsUpTo(NormCards, MaxCards) : qin = [M |-> M, normalized |-> <<>>]
    /\ qout = <<>>

\* cards.generateNormalized() (maybeUpdate line 215), in some map order.
NormGenerate ==
    /\ qout = <<>>
    /\ \E order \in Orders(Len(qin.M)) :
          qout' = <<[M |-> qin.M, normalized |-> generateNormalized(qin.M, order)]>>
    /\ UNCHANGED <<storeVars, watchVars, clientVars, validator>>
    /\ UNCHANGED <<heap, building, held, qin>>

NormNext ==
    \/ NormGenerate

NormSpec == NormInit /\ [][NormNext]_vars

(* ------------------------------ Query.Match ---------------------------- *)

\* Mutant of shortColor: Blue is abbreviated by its initial.
shortColorInitial(c) ==
    CASE c = "White" -> <<"w">>
      [] c = "Blue" -> <<"b">>
      [] c = "Black" -> <<"b">>
      [] c = "Red" -> <<"r">>
      [] c = "Green" -> <<"g">>
      [] OTHER -> <<>>

\* shortColor.
shortColor(c) ==
    CASE c = "White" -> <<"w">>
      [] c = "Blue" -> <<"u">>
      [] c = "Black" -> <<"b">>
      [] c = "Red" -> <<"r">>
      [] c = "Green" -> <<"g">>
      [] OTHER -> <<>>

\* A Query value.
NewQuery(name, rule, type, color) ==
    [Name |-> name, Rule |-> rule, Type |-> type, Color |-> color]

\* Match lines 18-37: every needle of a group is contained in the card's
\* lower-cased field.
MatchAll(needles, field) ==
    \A i \in DOMAIN needles : Contains(ToLower(field), needles[i])

\* Match lines 38-73: the loop labelled Color over q.Color.
RECURSIVE MatchColor(_, _)
MatchColor(color, colors) ==
    IF color = <<>> THEN TRUE
    ELSE IF Len(Head(color)) = 0 THEN MatchColor(Tail(color), colors)
    ELSE LET not == Head(color)[1] = "!"
             qc == IF not THEN Tail(Head(color)) ELSE Head(color)
         IN  IF qc = <<"m">> /\ Len(colors) > 1
             THEN IF not THEN FALSE ELSE MatchColor(Tail(color), colors)
             ELSE IF \E i \in DOMAIN colors : shortColor(colors[i]) = qc
             THEN IF not THEN FALSE ELSE MatchColor(Tail(color), colors)
             ELSE IF not THEN MatchColor(Tail(color), colors)
             ELSE FALSE

\* Query.Match.
Match(q, c) ==
    /\ MatchAll(q.Name, c.Name)
    /\ MatchAll(q.Rule, c.Text)
    /\ MatchAll(q.Type, c.Type)
    /\ MatchColor(q.Color, c.Colors)

(* ------------------------- ParseQuery and Query ------------------------ *)

\* strings.Fields: the maximal runs of non-space characters; `cur` is the run
\* being read.
RECURSIVE FieldsFrom(_, _, _)
FieldsFrom(str, cur, out) ==
    IF str = <<>> THEN (IF cur = <<>> THEN out ELSE Append(out, cur))
    ELSE IF Head(str) = " "
         THEN FieldsFrom(Tail(str), <<>>, IF cur = <<>> THEN out ELSE Append(out, cur))
         ELSE FieldsFrom(Tail(str), Append(cur, Head(str)), out)

Fields(str) == FieldsFrom(str, <<>>, <<>>)

\* validColor.
validColor(c) == c \in {"w", "u", "b", "r", "g", "m"}

\* ParseQuery lines 102-107 and 109-114: one predicate per valid rune, each
\* behind `prefix`.
RECURSIVE ColorRunes(_, _)
ColorRunes(str, prefix) ==
    IF str = <<>> THEN <<>>
    ELSE (IF validColor(Head(str)) THEN <<prefix \o <<Head(str)>>>> ELSE <<>>)
             \o ColorRunes(Tail(str), prefix)

\* s[2:].
From2(str) == SubSeq(str, 3, Len(str))

\* Mutant of ParseField: the text after a field prefix is taken as written.
ParseFieldKeepsCase(q, str) ==
    IF HasPrefix(str, <<"o", ":">>)
    THEN [q EXCEPT !.Rule = Append(@, From2(str))]
    ELSE IF HasPrefix(str, <<"t", ":">>)
    THEN [q EXCEPT !.Type = Append(@, From2(str))]
    ELSE IF HasPrefix(str, <<"c", ":">>)
    THEN [q EXCEPT !.Color = @ \o ColorRunes(From2(str), <<>>)]
    ELSE IF HasPrefix(str, <<"c", "!">>)
    THEN [q EXCEPT !.Color = @ \o ColorRunes(From2(str), <<"!">>)]
    ELSE [q EXCEPT !.Name = Append(@, ToLower(str))]

\* ParseQuery lines 95-117: the switch on one field.
ParseField(q, str) ==
    IF HasPrefix(str, <<"o", ":">>)
    THEN [q EXCEPT !.Rule = Append(@, ToLower(From2(str)))]
    ELSE IF HasPrefix(str, <<"t", ":">>)
    THEN [q EXCEPT !.Type = Append(@, ToLower(From2(str)))]
    ELSE IF HasPrefix(str, <<"c", ":">>)
    THEN [q EXCEPT !.Color = @ \o ColorRunes(ToLower(From2(str)), <<>>)]
    ELSE IF HasPrefix(str, <<"c", "!">>)
    THEN [q EXCEPT !.Color = @ \o ColorRunes(ToLower(From2(str)), <<"!">>)]
    ELSE [q EXCEPT !.Name = Append(@, ToLower(str))]

RECURSIVE ParseFields(_, _)
ParseFields(q, fields) ==
    IF fields = <<>> THEN q
    ELSE ParseFields(ParseField(q, Head(fields)), Tail(fields))

\* ParseQuery.
ParseQuery(str) == ParseFields(NewQuery(<<>>, <<>>, <<>>, <<>>), Fields(str))

\* Mutant of QueryLoop: no card is skipped for its name.
RECURSIVE QueryLoopNoSeen(_, _, _, _, _)
QueryLoopNoSeen(M, query, order, match, seenNames) ==
    IF order = <<>> THEN match
    ELSE IF Match(query, M[Head(order)])
         THEN QueryLoopNoSeen(M, query, Tail(order), Append(match, Head(order)), seenNames)
         ELSE QueryLoopNoSeen(M, query, Tail(order), match, seenNames)

\* Query lines 134-139: the loop over c.M in the order `order`.
RECURSIVE QueryLoop(_, _, _, _, _)
QueryLoop(M, query, order, match, seenNames) ==
    IF order = <<>> THEN match
    ELSE IF Match(query, M[Head(order)]) /\ M[Head(order)].Name \notin seenNames
         THEN QueryLoop(M, query, Tail(order), Append(match, Head(order)),
                        seenNames \cup {M[Head(order)].Name})
         ELSE QueryLoop(M, query, Tail(order), match, seenNames)

\* Cards.Query: the cards (positions in M) in the order appended.
Query(c, q, order) == QueryLoop(c.M, ParseQuery(q), order, <<>>, {})

(* --------------------- specification of Query.Match -------------------- *)

\* Bound: color predicates in a Query.
MaxPreds == 2

\* The five colors of the feed in their usual order, and a name shortColor
\* does not know.
ColorNames == <<"White", "Blue", "Black", "Red", "Green", "Purple">>

\* Card.Colors: any choice of the names, each at most once.
InSet(S, x) == x \in S

ColorLists == {SelectSeq(ColorNames, LAMBDA x : InSet(S, x)) : S \in SUBSET Range(ColorNames)}

\* Query.Color entries (query.go lines 12-13).
ColorLetters == {"w", "u", "b", "r", "g", "m"}

ColorPreds == {<<x>> : x \in ColorLetters} \cup {<<"!", x>> : x \in ColorLetters}

\* A card and a Query with color predicates only.
MatchInit ==
    /\ StoreIdle
    /\ heap = <<>>
    /\ building = 0
    /\ held = <<>>
    /\ \E colors \in ColorLists, color \in SeqsUpTo(ColorPreds, MaxPreds) :
          qin = [card |-> NewCard(<<>>, <<>>, colors, <<>>, <<>>),
                 query |-> NewQuery(<<>>, <<>>, <<>>, color)]
    /\ qout = <<>>

\* query.Match(card).
MatchCall ==
    /\ qout = <<>>
    /\ qout' = <<Match(qin.query, qin.card)>>
    /\ UNCHANGED <<storeVars, watchVars, clientVars, validator>>
    /\ UNCHANGED <<heap, building, held, qin>>

MatchNext ==
    \/ MatchCall

MatchSpec == MatchInit /\ [][MatchNext]_vars

(* --------------------- specification of Cards.Query -------------------- *)

\* Bounds: characters in a query text, and Query calls on one Catalog.
MaxText == 3

MaxCalls == 2

\* The letters of the field prefixes in both cases, a color letter in both
\* cases, the prefix punctuation and the blank.
TextChars == {"o", "O", "t", "T", "c", "C", "w", "W", ":", "!", " "}

\* Three cards: a White card, a card whose name reads like a query, and a
\* second entry that bears the first one's name.
QueryCards ==
    { NewCard(<<"W", "o">>, <<>>, <<"White">>, <<"c">>, <<"w">>),
      NewCard(<<"o", ":", "w">>, <<>>, <<>>, <<"T", "o">>, <<"c", ":">>),
      NewCard(<<"W", "o">>, <<>>, <<"White", "Blue">>, <<"t">>, <<>>) }

\* A published Catalog (index built) and a query text.
QueryInit ==
    /\ StoreIdle
    /\ \E M \in SeqsUpTo(QueryCards, MaxCards), order \in Orders(MaxCards) :
          heap = <<[M |-> M,
                    normalized |-> generateNormalized(M, SelectSeq(order, LAMBDA i : i <= Len(M)))]>>
    /\ building = 0
    /\ held = <<>>
    /\ \E q \in SeqsUpTo(TextChars, MaxText) : qin = [text |-> q]
    /\ qout = <<>>

\* c.Query(q), in some map order; it assigns to nothing but its locals.
QueryCall ==
    /\ Len(qout) < MaxCalls
    /\ \E order \in Orders(Len(heap[1].M)) :
          qout' = Append(qout, Query(heap[1], qin.text, order))
    /\ UNCHANGED <<storeVars, watchVars, clientVars, validator>>
    /\ UNCHANGED <<heap, building, held, qin>>

QueryNext ==
    \/ QueryCall

QuerySpec == QueryInit /\ [][QueryNext]_vars

(* ---------------- specification of Catalog publication ----------------- *)

\* The refresh task and the readers, seen at the level of Catalog contents:
\* heap holds every *Cards allocated so far, building is the refresh task's
\* local `cards` (0 when it has none), cards is s.cards as a position in
\* heap, and held lists the references readers got from Cards() or from a
\* WaitForUpdate() handle, each with the contents seen when it was got.  The
\* mutex and the channels are those of Spec and are left out here; wpc is
\* "gen" before generateNormalized, "pub" before the swap, "select" after.

\* Catalogs the feed may decode to: one card, two cards whose names collide
\* once normalized, and a two-faced card next to a plain one.
CatFeed ==
    { << NewCard(<<"A", "e">>, <<>>, <<"White">>, <<"c">>, <<"w">>) >>,
      << NewCard(<<"A", "e">>, <<>>, <<"White">>, <<"c">>, <<"w">>),
         NewCard(<<"LIG">>, <<>>, <<>>, <<"t">>, <<>>) >>,
      << NewCard(<<"B">>, << <<"A", "e">>, <<"B">> >>, <<"Blue">>, <<"c">>, <<"w">>),
         NewCard(<<"W", "o">>, <<>>, <<"White", "Blue">>, <<"t">>, <<>>) >> }

\* Query texts and card names the readers ask for.
CatTexts == { <<"w">>, <<"o", ":", "W">>, <<"c", "!", "w">> }

CatLookups == { <<"A", "e">>, <<"LIG">>, <<"B">>, <<"W">> }

CatInit ==
    /\ StoreIdle
    /\ CatIdle

\* Mutant of CatDecode: once a Catalog is published, the response is decoded
\* into it instead of into a new one.
CatDecodeInPlace(M) ==
    /\ wpc \in {"start", "select"}
    /\ Len(heap) < MaxAttempts
    /\ IF cards = 0
       THEN /\ heap' = Append(heap, [M |-> M, normalized |-> <<>>])
            /\ building' = Len(heap) + 1
       ELSE /\ heap' = [heap EXCEPT ![cards].M = M]
            /\ building' = cards
    /\ wpc' = "gen"
    /\ UNCHANGED <<cards, ready, held, qin, qout>>
    /\ UNCHANGED <<updateFrequency, closed, mu, etag, notifyCh, closedChs, panicked>>
    /\ UNCHANGED <<attempts, reqEtag, respEtag, notify, outcome, snap, clientVars, validator>>

\* maybeUpdate lines 207-214: a new Cards with two empty maps, and the body
\* decoded into its M.
CatDecode(M) ==
    /\ wpc \in {"start", "select"}
    /\ Len(heap) < MaxAttempts
    /\ heap' = Append(heap, [M |-> M, normalized |-> <<>>])
    /\ building' = Len(heap) + 1
    /\ wpc' = "gen"
    /\ UNCHANGED <<cards, ready, held, qin, qout>>
    /\ UNCHANGED <<updateFrequency, closed, mu, etag, notifyCh, closedChs, panicked>>
    /\ UNCHANGED <<attempts, reqEtag, respEtag, notify, outcome, snap, clientVars, validator>>

CatDecodeFeed == \E M \in CatFeed : CatDecode(M)

\* maybeUpdate line 215: cards.generateNormalized(), in some map order.
CatGenerate ==
    /\ wpc = "gen"
    /\ \E order \in Orders(Len(heap[building].M)) :
          heap' = [heap EXCEPT ![building].normalized =
                      generateNormalizedFrom(@, heap[building].M, order)]
    /\ wpc' = "pub"
    /\ UNCHANGED <<cards, ready, building, held, qin, qout>>
    /\ UNCHANGED <<updateFrequency, closed, mu, etag, notifyCh, closedChs, panicked>>
    /\ UNCHANGED <<attempts, reqEtag, respEtag, notify, outcome, snap, clientVars, validator>>

\* maybeUpdate lines 216-230: s.cards = cards, and ready is closed.
CatPublish ==
    /\ wpc = "pub"
    /\ cards' = building
    /\ ready' = TRUE
    /\ building' = 0
    /\ wpc' = "select"
    /\ UNCHANGED <<heap, held, qin, qout>>
    /\ UNCHANGED <<updateFrequency, closed, mu, etag, notifyCh, closedChs, panicked>>
    /\ UNCHANGED <<attempts, reqEtag, respEtag, notify, outcome, snap, clientVars, validator>>

\* Cards() (243-248), or the value a WaitForUpdate() handle delivers (144):
\* a reader gets s.cards.
CatCards ==
    /\ ready
    /\ Len(held) < NumClients
    /\ held' = Append(held, [ptr |-> cards, M |-> heap[cards].M,
                             normalized |-> heap[cards].normalized])
    /\ UNCHANGED <<cards, ready, wpc, heap, building, qin, qout>>
    /\ UNCHANGED <<updateFrequency, closed, mu, etag, notifyCh, closedChs, panicked>>
    /\ UNCHANGED <<attempts, reqEtag, respEtag, notify, outcome, snap, clientVars, validator>>

\* A reader calls Query on a Catalog it holds.
CatQuery ==
    /\ \E h \in DOMAIN held, q \in CatTexts :
          \E order \in Orders(Len(heap[held[h].ptr].M)) :
              /\ qin' = [catalog |-> held[h].ptr, text |-> q]
              /\ qout' = <<Query(heap[held[h].ptr], q, order)>>
    /\ UNCHANGED <<cards, ready, wpc, heap, building, held>>
    /\ UNCHANGED <<updateFrequency, closed, mu, etag, notifyCh, closedChs, panicked>>
    /\ UNCHANGED <<attempts, reqEtag, respEtag, notify, outcome, snap, clientVars, validator>>

\* A reader calls LookupNormalized on a Catalog it holds.
CatLookup ==
    /\ \E h \in DOMAIN held, n \in CatLookups :
          /\ qin' = [catalog |-> held[h].ptr, name |-> n]
          /\ qout' = <<LookupNormalized(heap[held[h].ptr], n)>>
    /\ UNCHANGED <<cards, ready, wpc, heap, building, held>>
    /\ UNCHANGED <<updateFrequency, closed, mu, etag, notifyCh, closedChs, panicked>>
    /\ UNCHANGED <<attempts, reqEtag, respEtag, notify, outcome, snap, clientVars, validator>>

CatNext ==
    \/ CatDecodeFeed
    \/ CatGenerate
    \/ CatPublish
    \/ CatCards
    \/ CatQuery
    \/ CatLookup

CatSpec == CatInit /\ [][CatNext]_vars

(* ------------------------------ claims --------------------------------- *)

\* WaitForUpdate calls whose goroutine has captured its update channel.
Waiters == {p \in Clients : op[p] = "wait" /\ pc[p] /= "w_read"}

\* WaitForUpdate handles that have delivered their Catalog.
Delivered == {p \in Clients : op[p] = "wait" /\ pc[p] = "done"}

\* Direct Cards() calls that have returned.
CardsReturned == {p \in Clients : op[p] = "cards" /\ pc[p] = "done"}

\* The latest generation whose refresh has gone past its close(notify).
NotifiedGen == IF wpc \in {"notify", "panic"} THEN cards - 1 ELSE cards

\* C1: a waiter that captured the update signal before a successful refresh is
\* woken by that refresh: once the refresh has fired its signal, the waiter is
\* no longer blocked on an unfired channel.
C1_WaiterWoken ==
    \A p \in Waiters :
        (pc[p] = "g_wait" /\ seen[p] < NotifiedGen) => cap[p] \in closedChs

\* C2: a handle delivers only a Catalog published by a refresh that succeeded
\* after the handle's WaitForUpdate call captured the update signal.
C2_NoDeliveryWithoutRefresh ==
    \A p \in Delivered : ret[p] > seen[p]

\* C3: two handles whose calls captured the signal with no successful refresh
\* between them deliver the same Catalog.
C3_SameCatalog ==
    \A p, q \in Delivered : seen[p] = seen[q] => ret[p] = ret[q]

\* C4: the ready signal is fired only when s.cards is non-nil, and every value
\* returned by Cards() (to a direct caller or to WaitForUpdate's goroutine) is a
\* published, non-nil Catalog.
C4_CardsNonNil ==
    /\ ready => cards /= 0
    /\ \A p \in Clients :
          (op[p] \in {"cards", "wait"} /\ pc[p] \in {"g_send", "done"})
              => (ret[p] /= 0 /\ ret[p] <= cards)

\* C4 witness: a direct Cards() call has returned, after the Store was closed
\* and after a refresh that followed the first success has failed.
C4_Witness ==
    /\ CardsReturned /= {}
    /\ closed
    /\ cards /= 0
    /\ outcome \in Failures

\* C5 (as claimed): all Cards() calls made before any refresh succeeded return
\* the same Catalog instance.
C5_SameInstance ==
    \A p, q \in CardsReturned :
        (seen[p] = 0 /\ seen[q] = 0) => ret[p] = ret[q]

\* C5 (amended): every Cards() call made before any refresh succeeded returns a
\* Catalog published at or after the first success and current when read; two
\* such calls return different instances only when a second refresh has
\* succeeded.
C5_CurrentInstance ==
    /\ \A p \in CardsReturned : seen[p] = 0 => (1 <= ret[p] /\ ret[p] <= cards)
    /\ \A p, q \in CardsReturned :
          (seen[p] = 0 /\ seen[q] = 0 /\ ret[p] /= ret[q]) => cards >= 2

\* C5 witness: two calls made before the first success have both returned.
C5_Witness ==
    \E p, q \in CardsReturned : p /= q /\ seen[p] = 0 /\ seen[q] = 0

\* C6 (as claimed): whenever an update signal has been fired, a Cards() call
\* passes the ready gate and finds the new Catalog.
C6_VisibleWhenFired ==
    \A k \in closedChs : ready /\ cards >= k

\* C6 (amended): when a refresh has just fired its update signal, s.cards
\* already holds the Catalog that refresh built; the ready gate can still be
\* shut only on the first success, while the refresh task is at its very next
\* statement; and a Cards() call never returns a Catalog older than the one
\* current when it was called.
C6_PublishedWhenFired ==
    /\ wpc = "ready_sel" => (cards = snap[1] + 1 /\ notify \in closedChs)
    /\ (closedChs /= {} /\ ~ready) => (wpc = "ready_sel" /\ cards = 1)
    /\ \A p \in CardsReturned : ret[p] >= seen[p]

\* C6 witness: the first refresh has fired its update signal and not yet the
\* ready signal, while a Cards() caller waits at the gate.
C6_Witness ==
    /\ wpc = "ready_sel"
    /\ ~ready
    /\ \E p \in Clients : op[p] = "cards" /\ pc[p] = "c_ready"

\* A Close call that started when no other Close call was in flight.
Sequential(p) == op[p] = "close" /\ cap[p] = 0

\* C7, results: of Close calls made one after the other, the first returns
\* nil and every later one returns "already closed" straight from its select.
C7_Results ==
    \A p \in Clients :
        Sequential(p) =>
            /\ (seen[p] = 0 /\ pc[p] = "done") => err[p] = "nil"
            /\ seen[p] >= 1 => (pc[p] = "done" /\ err[p] = "already closed")

\* C7, frame: a Close call that fails changes no Store field.
C7_Frame ==
    \A p \in Clients :
        (pc[p] = "idle" /\ err'[p] = "already closed") => UNCHANGED storeVars

\* C7: sequential Close calls: first nil, later ones "already closed", and the
\* failing calls leave the Store unchanged.
C7_SequentialClose == []C7_Results /\ [][C7_Frame]_vars

\* C7 witness: two Close calls one after the other have returned, the second
\* with the error.
C7_Witness ==
    \E p, q \in Clients :
        /\ Sequential(p) /\ Sequential(q)
        /\ seen[p] = 0 /\ err[p] = "nil"
        /\ seen[q] = 1 /\ err[q] = "already closed"

\* C8: among any Close calls, concurrent ones included, the closed signal is
\* fired once (no close of a closed channel) and at most one call returns nil.
C8_ClosedFiredOnce ==
    /\ ~panicked
    /\ Cardinality({p \in Clients : err[p] = "nil"}) <= 1

\* C9: once a Close call has returned nil, the watch loop starts no new
\* refresh attempt.
C9_NoAttemptAfterClose ==
    [][(\E p \in Clients : err[p] = "nil") => attempts' = attempts]_vars

\* C10: when a refresh attempt has ended in a failure, s.cards, s.etag,
\* s.notifyCh, the ready signal and the fired update signals are what they
\* were when the attempt started; and while no attempt has succeeded, every
\* Cards() caller is still at the ready gate and no WaitForUpdate goroutine
\* has been woken.
C10_FailureLeavesStore ==
    /\ (outcome \in Failures) => StoreFields = snap
    /\ (outcome \in Failures /\ cards = 0) =>
          \A p \in Clients :
              /\ op[p] = "cards" => pc[p] = "c_ready"
              /\ op[p] = "wait" => pc[p] \in {"w_read", "g_wait"}

\* C10 witness: an attempt has failed after an earlier success published a
\* Catalog with a validator, with a waiter still blocked on its update channel.
C10_Witness ==
    /\ outcome \in Failures
    /\ cards /= 0
    /\ etag /= 0
    /\ \E p \in Waiters : pc[p] = "g_wait" /\ cap[p] \notin closedChs

\* C15: whenever no refresh is between its publication and its close(notify),
\* the Store's current update signal is unfired (the signal a refresh fires is
\* the old generation's, the one it installs stays unfired until the next
\* successful refresh).
C15_CurrentSignalUnfired ==
    wpc /= "notify" => notifyCh \notin closedChs

C17_NoAttemptOnceClosed ==
    [][(closed /\ wpc = "select") => attempts' = attempts]_vars

\* C18, lock discipline: the refresh task holds s.mu exactly between its Lock
\* and the Unlock two lines later (token snapshot, pointer swap), never while
\* fetching, reading, decoding or indexing.
C18_LockOnlyForSwap ==
    mu.watch <=> wpc \in {"mu_etag", "pub"}

\* C18: the lock discipline, and its consequence: once ready has fired a
\* Cards() call returns although no fetch need ever complete (as long as the
\* process lives).
C18_LockNotHeldOverIO ==
    /\ []C18_LockOnlyForSwap
    /\ \A p \in Clients :
          (ready /\ pc[p] \in {"c_ready", "c_rlock", "c_read"})
              ~> (pc[p] \in {"g_send", "done"} \/ panicked)

\* C18 witness: a Cards() caller holds the read lock while the second fetch is
\* in flight.
C18_Witness ==
    /\ wpc = "fetch"
    /\ ready
    /\ \E p \in Clients : pc[p] = "c_read" /\ p \in mu.r

\* C20 (as claimed): whenever the refresh task does not hold the lock, the
\* stored token is the validator of the response the current Catalog came
\* from and is empty exactly when there is no Catalog; the token a refresh
\* presented is the stored one when it publishes.
C20_TokenIffCatalog ==
    ~mu.watch =>
        /\ etag = validator
        /\ etag = 0 <=> cards = 0
        /\ wpc \in {"fetch", "pub_lock"} => reqEtag = etag

\* C20 (amended): as claimed, but an empty token only follows from there being
\* no Catalog; a Catalog decoded from a response without Etag header is stored
\* with the empty token.
C20_TokenOfCatalog ==
    /\ ~mu.watch =>
          /\ etag = validator
          /\ cards = 0 => etag = 0
          /\ wpc \in {"fetch", "pub_lock"} => reqEtag = etag
    /\ wpc = "pub" => reqEtag = etag

\* C20 witness: the second refresh is about to publish, having presented the
\* validator stored with the first Catalog.
C20_Witness ==
    /\ wpc = "pub"
    /\ cards = 1
    /\ reqEtag /= 0
    /\ respEtag /= reqEtag

\* The keys generateNormalized writes for the card at position i of M.
KeysOf(M, i) == Range(JoinedKeys(M[i])) \cup {PrimaryKey(M[i])}

\* C11 (as claimed): in every generated Catalog, whatever the collisions,
\* LookupNormalized of each card's primary name returns that very card.
C11_LookupReturnsCard ==
    qout /= <<>> =>
        \A i \in DOMAIN qout[1].M :
            LookupNormalized(qout[1], qout[1].M[i].Name) = i

\* C11 (amended): the index has an entry under every card's normalized primary
\* name, held by a card that wrote that key; LookupNormalized of the primary
\* name returns the card itself when no other card writes the same key.
C11_LookupReturnsCardUnlessCollision ==
    qout /= <<>> =>
        LET c == qout[1] IN
        \A i \in DOMAIN c.M :
            /\ PrimaryKey(c.M[i]) \in DOMAIN c.normalized
            /\ LookupNormalized(c, c.M[i].Name) \in DOMAIN c.M
            /\ PrimaryKey(c.M[i]) \in KeysOf(c.M, LookupNormalized(c, c.M[i].Name))
            /\ (\A j \in DOMAIN c.M \ {i} : PrimaryKey(c.M[i]) \notin KeysOf(c.M, j))
                   => LookupNormalized(c, c.M[i].Name) = i

\* C11 witness: a generated Catalog of a ligature-named card and a two-faced
\* card whose keys do not collide.
C11_Witness ==
    /\ qout /= <<>>
    /\ Len(qout[1].M) = 2
    /\ qout[1].M[1].Name = <<"LIG">>
    /\ qout[1].M[2].Name = <<"B">>
    /\ qout[1].M[2].Names /= <<>>
    /\ LookupNormalized(qout[1], <<"LIG">>) = 1
    /\ LookupNormalized(qout[1], <<"B">>) = 2

\* The color a letter of the query language stands for.
ColorOf(x) ==
    CASE x = "w" -> "White"
      [] x = "u" -> "Blue"
      [] x = "b" -> "Black"
      [] x = "r" -> "Red"
      [] x = "g" -> "Green"

\* The per-letter reference: whether one color predicate passes on a card
\* with the given colors.
PredPasses(pred, colors) ==
    LET negated == pred[1] = "!"
        x == pred[Len(pred)]
        holds == IF x = "m" THEN Cardinality(Range(colors)) > 1
                 ELSE ColorOf(x) \in Range(colors)
    IN  IF negated THEN ~holds ELSE holds

\* C12: Match on a list of color predicates answers true exactly when every
\* predicate passes by the per-letter reference.
C12_ColorMatchIsReference ==
    qout /= <<>> =>
        (qout[1] <=>
            \A i \in DOMAIN qin.query.Color :
                PredPasses(qin.query.Color[i], qin.card.Colors))

\* C12 witness: a White and Blue card was matched against "m" and "!r" and
\* accepted.
C12_Witness ==
    /\ qout = <<TRUE>>
    /\ qin.card.Colors = <<"White", "Blue">>
    /\ qin.query.Color = << <<"m">>, <<"!", "r">> >>

\* The same letter in the other case.
SwapCase(c) ==
    CASE c = "o" -> "O"
      [] c = "t" -> "T"
      [] c = "c" -> "C"
      [] c = "w" -> "W"
      [] c = "O" -> "o"
      [] c = "T" -> "t"
      [] c = "C" -> "c"
      [] c = "W" -> "w"
      [] OTHER -> c

\* The text with the letters at the positions S in the other case.
Recase(str, S) == [i \in 1..Len(str) |-> IF i \in S THEN SwapCase(str[i]) ELSE str[i]]

\* The positions of the text that hold the letter of a field prefix, in
\* either case: the first character of a field, followed by ":" (o, t, c) or
\* by "!" (c).
PrefixLetters(str) ==
    {i \in 1..(Len(str) - 1) :
        /\ i = 1 \/ str[i - 1] = " "
        /\ \/ LowerChar(str[i]) \in {"o", "t", "c"} /\ str[i + 1] = ":"
           \/ LowerChar(str[i]) = "c" /\ str[i + 1] = "!"}

\* The names of the cards at the given positions of M.
NamesAt(M, ids) == {M[i].Name : i \in ids}

\* The cards of M that match every predicate group of the text.
Matching(M, str) == {i \in DOMAIN M : Match(ParseQuery(str), M[i])}

\* C13 (as claimed): whatever letters of the query text change case, field
\* prefixes included, Query returns cards of the same names.
C13_CaseInsensitive ==
    \A k \in DOMAIN qout :
        \A S \in SUBSET (1..Len(qin.text)) :
            NamesAt(heap[1].M, Range(qout[k]))
                = NamesAt(heap[1].M, Matching(heap[1].M, Recase(qin.text, S)))

\* C13 (amended): when the letters that change case are not letters of a field
\* prefix, the text parses to the same Query (each token in the same group
\* with the same needle) and Query returns cards of the same names.
C13_CaseInsensitiveButPrefix ==
    \A S \in SUBSET ((1..Len(qin.text)) \ PrefixLetters(qin.text)) :
        /\ ParseQuery(Recase(qin.text, S)) = ParseQuery(qin.text)
        /\ \A k \in DOMAIN qout :
              NamesAt(heap[1].M, Range(qout[k]))
                  = NamesAt(heap[1].M, Matching(heap[1].M, Recase(qin.text, S)))

\* C13 witness: the rule query "o:W" returned the card whose text holds "w".
C13_Witness ==
    /\ qin.text = <<"o", ":", "W">>
    /\ Len(heap[1].M) = 2
    /\ heap[1].M[1].Text = <<"w">>
    /\ heap[1].M[2].Text /= <<"w">>
    /\ qout /= <<>>
    /\ qout[1] = <<1>>

\* C14 (as claimed), results: no two returned cards bear the same name, and
\* the returned cards are exactly the matching cards of the Catalog.
C14_ExactlyMatchingResults ==
    \A k \in DOMAIN qout :
        /\ \A i, j \in DOMAIN qout[k] :
              i /= j => heap[1].M[qout[k][i]].Name /= heap[1].M[qout[k][j]].Name
        /\ Range(qout[k]) = Matching(heap[1].M, qin.text)

\* C14 (as claimed): the results, and Query leaves the Catalog as it was.
C14_ExactlyMatching ==
    /\ []C14_ExactlyMatchingResults
    /\ [][heap' = heap]_vars

\* C14 (amended), results: no two returned cards bear the same name, every
\* returned card matches, every matching card's name is borne by a returned
\* card, and two calls return cards of the same names.
C14_OnePerNameResults ==
    \A k \in DOMAIN qout :
        /\ \A i, j \in DOMAIN qout[k] :
              i /= j => heap[1].M[qout[k][i]].Name /= heap[1].M[qout[k][j]].Name
        /\ Range(qout[k]) \subseteq Matching(heap[1].M, qin.text)
        /\ NamesAt(heap[1].M, Range(qout[k]))
               = NamesAt(heap[1].M, Matching(heap[1].M, qin.text))
        /\ \A l \in DOMAIN qout :
              NamesAt(heap[1].M, Range(qout[k])) = NamesAt(heap[1].M, Range(qout[l]))
        /\ (\A i, j \in DOMAIN heap[1].M : i /= j => heap[1].M[i].Name /= heap[1].M[j].Name)
               => Range(qout[k]) = Matching(heap[1].M, qin.text)

\* C14 (amended): the results, and Query leaves the Catalog as it was.
C14_OnePerName ==
    /\ []C14_OnePerNameResults
    /\ [][heap' = heap]_vars

\* C14 witness: two calls of the name query "w" on a Catalog of two entries
\* named "Wo" returned one entry each, and not the same one.
C14_Witness ==
    /\ qin.text = <<"w">>
    /\ Len(heap[1].M) = 2
    /\ heap[1].M[1].Name = heap[1].M[2].Name
    /\ Len(qout) = 2
    /\ qout[1] = <<1>>
    /\ qout[2] = <<2>>

\* The normalized index of c holds exactly the keys its cards write, each
\* held by a card that writes it.
IndexBuilt(c) ==
    /\ DOMAIN c.normalized = UNION {KeysOf(c.M, i) : i \in DOMAIN c.M}
    /\ \A k \in DOMAIN c.normalized :
          /\ c.normalized[k] \in DOMAIN c.M
          /\ k \in KeysOf(c.M, c.normalized[k])

\* C19: the Catalog s.cards refers to and every Catalog a reader holds has
\* its index completely built, and a Catalog a reader holds has the primary
\* map and the index it had when the reader got it, whatever refreshes,
\* Query and LookupNormalized calls have happened since.
C19_SnapshotIsolation ==
    /\ cards /= 0 => IndexBuilt(heap[cards])
    /\ \A h \in DOMAIN held :
          /\ IndexBuilt(heap[held[h].ptr])
          /\ heap[held[h].ptr].M = held[h].M
          /\ heap[held[h].ptr].normalized = held[h].normalized

\* C19 witness: a reader still holds the first Catalog after a second one
\* with other contents was published, and has just queried the old one.
C19_Witness ==
    /\ cards = 2
    /\ heap[1].M /= heap[2].M
    /\ held /= <<>>
    /\ held[1].ptr = 1
    /\ qout /= <<>>
    /\ qin.catalog = 1

====
